---- MODULE Spec2Model ----
(***************************************************************************)
(* Model of stack/assets.py: the linear registration pass that adds the    *)
(* asset buckets, their outputs, the asset management policy and (outside  *)
(* GovCloud) the CloudFront distributions to the shared troposphere        *)
(* template, followed by the resolution of the intrinsic functions the     *)
(* pass wrote (Ref, Join, Split, If, Equals) against stack parameters.     *)
(*                                                                         *)
(* Strings that are joined or split are sequences of one-character         *)
(* strings; identifiers (logical names, property keywords) that are never  *)
(* concatenated stay TLA+ strings.                                         *)
(***************************************************************************)
EXTENDS Integers, Sequences, FiniteSets, TLC

VARIABLES
    pc,                        \* position of the module's top-level pass
    USE_GOVCLOUD,              \* os.environ.get('USE_GOVCLOUD')
    arn_prefix,                \* .common.arn_prefix
    template,                  \* .template.template: the shared accumulator
    common_bucket_conf,        \* module global
    assets_management_policy,  \* module global
    distribution,              \* module global
    stack_parameters,          \* parameter values of the stack launched from the template
    resolved                   \* the template with its intrinsic functions resolved

vars == <<pc, USE_GOVCLOUD, arn_prefix, template, common_bucket_conf,
          assets_management_policy, distribution, stack_parameters, resolved>>

-----------------------------------------------------------------------------
(* Bounds *)

MaxDomainLen == 1
MaxAlternates == 2

-----------------------------------------------------------------------------
(* Character strings *)

HTTPS == <<"h", "t", "t", "p", "s", ":", "/", "/">>
SEMI == <<";">>
SEMI_HTTPS == SEMI \o HTTPS
EMPTY == <<>>
S3_ARN == <<":", "s", "3", ":", ":", ":">>
SLASH_STAR == <<"/", "*">>

\* characters a host name is drawn from
DomainChars == {"a", "."}

RECURSIVE StringsUpTo(_)
StringsUpTo(n) ==
    IF n = 0 THEN {EMPTY}
    ELSE LET shorter == StringsUpTo(n - 1)
         IN  shorter \cup {Append(s, c) : s \in shorter, c \in DomainChars}

RECURSIVE ListsUpTo(_, _)
ListsUpTo(S, n) ==
    IF n = 0 THEN {<<>>}
    ELSE LET shorter == ListsUpTo(S, n - 1)
         IN  shorter \cup {Append(l, s) : l \in shorter, s \in S}

Domains == StringsUpTo(MaxDomainLen)
AlternateLists == ListsUpTo(Domains, MaxAlternates)

-----------------------------------------------------------------------------
(* troposphere intrinsic-function helpers, as the objects the pass builds *)

Lit(s) == [fn |-> "Lit", v |-> s]
Ref(name) == [fn |-> "Ref", name |-> name]
GetAtt(res, attr) == [fn |-> "GetAtt", res |-> res, attr |-> attr]
List(items) == [fn |-> "List", items |-> items]
Join(delim, items) == [fn |-> "Join", delim |-> delim, items |-> items]
Split(delim, str) == [fn |-> "Split", delim |-> delim, str |-> str]
If(cond, a, b) == [fn |-> "If", cond |-> cond, a |-> a, b |-> b]
Equals(a, b) == [fn |-> "Equals", a |-> a, b |-> b]
ViewerCertificate(arn, ssl) ==
    [fn |-> "ViewerCertificate", AcmCertificateArn |-> arn, SslSupportMethod |-> ssl]
NoValue == Ref("AWS::NoValue")

-----------------------------------------------------------------------------
(* Values the intrinsic functions resolve to *)

Str(s) == [t |-> "str", v |-> s]
Lst(l) == [t |-> "list", v |-> l]
Att(res, attr) == [t |-> "att", res |-> res, attr |-> attr]
Absent == [t |-> "novalue"]

\* Fn::Join on resolved strings
RECURSIVE JoinStrings(_, _)
JoinStrings(delim, l) ==
    IF Len(l) = 0 THEN EMPTY
    ELSE IF Len(l) = 1 THEN l[1]
    ELSE l[1] \o delim \o JoinStrings(delim, Tail(l))

\* Fn::Split on a resolved string, for a one-character delimiter
RECURSIVE SplitString(_, _)
SplitString(delim, s) ==
    IF \E i \in 1..Len(s) : s[i] = delim[1]
    THEN LET i == CHOOSE k \in 1..Len(s) :
                      s[k] = delim[1] /\ \A j \in 1..(k - 1) : s[j] # delim[1]
         IN  <<SubSeq(s, 1, i - 1)>> \o SplitString(delim, SubSeq(s, i + 1, Len(s)))
    ELSE <<s>>

-----------------------------------------------------------------------------
(* Collaborators: .domain and the physical ids of the deployed buckets *)

\* .domain: the primary domain, its alternates and the name of the condition
\* that holds when there are no alternates
domain_name == Ref("DomainName")
domain_name_alternates == Ref("DomainNameAlternates")
no_alt_domains == "NoAlternateDomains"

\* what Ref(<bucket>) resolves to once the bucket exists
PhysicalId(title) ==
    IF title = "AssetsBucket" THEN <<"p", "u", "b">>
    ELSE IF title = "PrivateAssetsBucket" THEN <<"p", "r", "v">>
    ELSE <<"x">>

-----------------------------------------------------------------------------
(* Resolution of the intrinsic functions *)

\* env.params: parameter name -> value; env.conds: condition name -> BOOLEAN
RECURSIVE Eval(_, _)
Eval(e, env) ==
    CASE e.fn = "Lit" -> Str(e.v)
      [] e.fn = "Ref" ->
            IF e.name = "AWS::NoValue" THEN Absent
            ELSE IF e.name \in DOMAIN env.params THEN env.params[e.name]
            ELSE Str(PhysicalId(e.name))
      [] e.fn = "GetAtt" -> Att(e.res, e.attr)
      [] e.fn = "List" -> Lst([i \in 1..Len(e.items) |-> Eval(e.items[i], env).v])
      [] e.fn = "Join" -> Str(JoinStrings(e.delim, Eval(e.items, env).v))
      [] e.fn = "Split" -> Lst(SplitString(e.delim, Eval(e.str, env).v))
      [] e.fn = "If" -> IF env.conds[e.cond] THEN Eval(e.a, env) ELSE Eval(e.b, env)
      [] e.fn = "ViewerCertificate" ->
            [t |-> "cert",
             AcmCertificateArn |-> Eval(e.AcmCertificateArn, env).v,
             SslSupportMethod |-> e.SslSupportMethod]

\* Fn::Equals of a condition declaration
EvalCondition(c, params) ==
    LET env == [params |-> params, conds |-> <<>>]
    IN  Eval(c.a, env) = Eval(c.b, env)

\* every condition in scope of the template, evaluated: the ones the
\* accumulator holds and the one .domain provides
Conditions(t, params) ==
    [n \in DOMAIN t.conditions \cup {no_alt_domains} |->
        IF n \in DOMAIN t.conditions
        THEN EvalCondition(t.conditions[n], params)
        ELSE Len(params["DomainNameAlternates"].v) = 0]

ResolveBucket(b, env) ==
    [b EXCEPT !.CorsConfiguration.CorsRules =
        [i \in 1..Len(@) |-> [@[i] EXCEPT !.AllowedOrigins = Eval(@, env)]]]

ResolveOrigin(o, env) == [o EXCEPT !.DomainName = Eval(@, env)]

ResolveDistribution(d, env) ==
    LET c == d.DistributionConfig
        base == [c EXCEPT !.Aliases = Eval(@, env),
                          !.Origins = [i \in 1..Len(@) |-> ResolveOrigin(@[i], env)]]
    IN  [d EXCEPT !.DistributionConfig =
            IF "ViewerCertificate" \in DOMAIN c
            THEN [base EXCEPT !.ViewerCertificate = Eval(@, env)]
            ELSE base]

ResolveResource(r, env) ==
    IF r.Type = "AWS::S3::Bucket" THEN ResolveBucket(r, env)
    ELSE ResolveDistribution(r, env)

ResolvePolicy(p, env) ==
    [p EXCEPT !.PolicyDocument.Statement =
        [i \in 1..Len(@) |-> [@[i] EXCEPT !.Resource = Eval(@, env)]]]

ResolveTemplate(t, policy, params) ==
    LET env == [params |-> params, conds |-> Conditions(t, params)]
    IN  [resources |-> [n \in DOMAIN t.resources |-> ResolveResource(t.resources[n], env)],
         outputs |-> [n \in DOMAIN t.outputs |->
                         [t.outputs[n] EXCEPT !.Value = Eval(@, env)]],
         conditions |-> [n \in DOMAIN t.conditions |-> env.conds[n]],
         policy |-> ResolvePolicy(policy, env)]

-----------------------------------------------------------------------------
(* The accumulator: troposphere.Template *)

Put(d, title, v) == [n \in DOMAIN d \cup {title} |-> IF n = title THEN v ELSE d[n]]

EmptyTemplate == [resources |-> <<>>, outputs |-> <<>>, parameters |-> <<>>, conditions |-> <<>>]

\* Template.add_resource / add_output / add_parameter: a title already present
\* in the registry is rejected (ValueError), the pass stops
Register(kind, title, v, next) ==
    IF title \in DOMAIN template[kind]
    THEN pc' = "raised" /\ UNCHANGED template
    ELSE pc' = next /\ template' = [template EXCEPT ![kind] = Put(@, title, v)]

\* a registry that keeps the first condition registered under a name
add_condition_KeepFirst(t, name, condition) ==
    IF name \in DOMAIN t.conditions THEN t
    ELSE [t EXCEPT !.conditions = Put(@, name, condition)]

\* Template.add_condition: conditions[name] = condition
add_condition(t, name, condition) ==
    [t EXCEPT !.conditions = Put(@, name, condition)]

-----------------------------------------------------------------------------
(* The declarations the pass builds *)

assets_bucket == "AssetsBucket"
private_assets_bucket == "PrivateAssetsBucket"
PublicRead == "PublicRead"
Private == "Private"

\* the allow-list without the conditional separator
AllowedOrigins_NoIf ==
    Split(SEMI, Join(EMPTY, List(<<
        Lit(HTTPS), domain_name,
        Lit(SEMI_HTTPS),
        Join(SEMI_HTTPS, domain_name_alternates)
    >>)))

AllowedOrigins ==
    Split(SEMI, Join(EMPTY, List(<<
        Lit(HTTPS), domain_name,
        If(no_alt_domains, Lit(EMPTY), Lit(SEMI_HTTPS)),
        Join(SEMI_HTTPS, domain_name_alternates)
    >>)))

CommonBucketConf ==
    [VersioningConfiguration |-> [Status |-> "Enabled"],
     DeletionPolicy |-> "Retain",
     CorsConfiguration |->
        [CorsRules |-> <<[AllowedOrigins |-> AllowedOrigins,
                          AllowedMethods |-> <<"POST", "PUT", "HEAD", "GET">>,
                          AllowedHeaders |-> <<"*">>]>>]]

\* a bucket that takes its access control from nowhere but the first one
Bucket_AccessIgnored(access, conf) ==
    [Type |-> "AWS::S3::Bucket",
     AccessControl |-> "PublicRead",
     VersioningConfiguration |-> conf.VersioningConfiguration,
     DeletionPolicy |-> conf.DeletionPolicy,
     CorsConfiguration |-> conf.CorsConfiguration]

Bucket(access, conf) ==
    [Type |-> "AWS::S3::Bucket",
     AccessControl |-> access,
     VersioningConfiguration |-> conf.VersioningConfiguration,
     DeletionPolicy |-> conf.DeletionPolicy,
     CorsConfiguration |-> conf.CorsConfiguration]

Output(description, value) == [Description |-> description, Value |-> value]

Parameter(description, type) == [Description |-> description, Type |-> type]

Statement(action, resource) ==
    [Effect |-> "Allow", Action |-> <<action>>, Resource |-> resource]

\* the policy with the last statement left on the first bucket
AssetsManagementPolicy_SameBucket(prefix) ==
    [PolicyName |-> "AssetsManagementPolicy",
     PolicyDocument |-> [Statement |-> <<
        Statement("s3:ListBucket",
                  Join(EMPTY, List(<<Lit(prefix), Lit(S3_ARN), Ref("AssetsBucket")>>))),
        Statement("s3:*",
                  Join(EMPTY, List(<<Lit(prefix), Lit(S3_ARN), Ref("AssetsBucket"),
                                     Lit(SLASH_STAR)>>))),
        Statement("s3:ListBucket",
                  Join(EMPTY, List(<<Lit(prefix), Lit(S3_ARN), Ref("PrivateAssetsBucket")>>))),
        Statement("s3:*",
                  Join(EMPTY, List(<<Lit(prefix), Lit(S3_ARN), Ref("AssetsBucket"),
                                     Lit(SLASH_STAR)>>)))
     >>]]

AssetsManagementPolicy(prefix) ==
    [PolicyName |-> "AssetsManagementPolicy",
     PolicyDocument |-> [Statement |-> <<
        Statement("s3:ListBucket",
                  Join(EMPTY, List(<<Lit(prefix), Lit(S3_ARN), Ref(assets_bucket)>>))),
        Statement("s3:*",
                  Join(EMPTY, List(<<Lit(prefix), Lit(S3_ARN), Ref(assets_bucket),
                                     Lit(SLASH_STAR)>>))),
        Statement("s3:ListBucket",
                  Join(EMPTY, List(<<Lit(prefix), Lit(S3_ARN), Ref(private_assets_bucket)>>))),
        Statement("s3:*",
                  Join(EMPTY, List(<<Lit(prefix), Lit(S3_ARN), Ref(private_assets_bucket),
                                     Lit(SLASH_STAR)>>)))
     >>]]

Origin(id, bucket) ==
    [Id |-> id,
     DomainName |-> GetAtt(bucket, "DomainName"),
     S3OriginConfig |-> [OriginAccessIdentity |-> ""]]

DefaultCacheBehavior(target) ==
    [TargetOriginId |-> target,
     ForwardedValues |->
        [QueryString |-> TRUE,
         Headers |-> <<"Origin", "Access-Control-Request-Headers",
                       "Access-Control-Request-Method">>],
     ViewerProtocolPolicy |-> "allow-all"]

distribution_aliases == Ref("DistributionAliases")
media_distribution_alias == Ref("MediaDistributionAlias")
media_acm_certificate_arn == Ref("MediaAcmCertificateArn")

no_media_distribution_alias == "NoMediaDistributionAlias"
\* the certificate condition under a name of its own
no_media_acm_certificate_arn_OwnName == "NoMediaAcmCertificateArn"
no_media_acm_certificate_arn == "NoMediaDistributionAlias"

AssetsDistribution ==
    [Type |-> "AWS::CloudFront::Distribution",
     DistributionConfig |->
        [Aliases |-> distribution_aliases,
         Origins |-> <<Origin("Assets", assets_bucket)>>,
         DefaultCacheBehavior |-> DefaultCacheBehavior("Assets"),
         Enabled |-> TRUE]]

\* the media distribution with the origin left on the public bucket
MediaAssetsDistribution_PublicOrigin ==
    [Type |-> "AWS::CloudFront::Distribution",
     DistributionConfig |->
        [Aliases |-> If(no_media_distribution_alias, NoValue,
                        List(<<media_distribution_alias>>)),
         Origins |-> <<Origin("Assets", assets_bucket)>>,
         DefaultCacheBehavior |-> DefaultCacheBehavior("Assets"),
         Enabled |-> TRUE,
         ViewerCertificate |-> If(no_media_acm_certificate_arn, NoValue,
                                  ViewerCertificate(media_acm_certificate_arn, "sni-only"))]]

MediaAssetsDistribution ==
    [Type |-> "AWS::CloudFront::Distribution",
     DistributionConfig |->
        [Aliases |-> If(no_media_distribution_alias, NoValue,
                        List(<<media_distribution_alias>>)),
         Origins |-> <<Origin("Assets", private_assets_bucket)>>,
         DefaultCacheBehavior |-> DefaultCacheBehavior("Assets"),
         Enabled |-> TRUE,
         ViewerCertificate |-> If(no_media_acm_certificate_arn, NoValue,
                                  ViewerCertificate(media_acm_certificate_arn, "sni-only"))]]

-----------------------------------------------------------------------------
(* The pass *)

UNSET == [Type |-> "unset"]

\* the test of the branch: os.environ.get('USE_GOVCLOUD') != 'on'
BuildDistributions_Always(env) == TRUE
BuildDistributions(env) == env # "on"

ARN_AWS == <<"a", "r", "n", ":", "a", "w", "s">>
ARN_AWS_US_GOV == ARN_AWS \o <<"-", "u", "s", "-", "g", "o", "v">>

\* values of os.environ.get('USE_GOVCLOUD'); "None" is the unset variable
GovCloudValues == {"on", "off", "ON", "None"}

Init ==
    /\ pc = "common_bucket_conf"
    /\ USE_GOVCLOUD \in GovCloudValues
    /\ arn_prefix \in {ARN_AWS, ARN_AWS_US_GOV}
    /\ template = EmptyTemplate
    /\ common_bucket_conf = UNSET
    /\ assets_management_policy = UNSET
    /\ distribution = "unset"
    /\ stack_parameters = <<>>
    /\ resolved = UNSET

BuildCommonBucketConf ==
    /\ pc = "common_bucket_conf"
    /\ common_bucket_conf' = CommonBucketConf
    /\ pc' = "assets_bucket"
    /\ UNCHANGED <<USE_GOVCLOUD, arn_prefix, template, assets_management_policy,
                   distribution, stack_parameters, resolved>>

AddAssetsBucket ==
    /\ pc = "assets_bucket"
    /\ Register("resources", assets_bucket, Bucket(PublicRead, common_bucket_conf),
                "assets_bucket_output")
    /\ UNCHANGED <<USE_GOVCLOUD, arn_prefix, common_bucket_conf, assets_management_policy,
                   distribution, stack_parameters, resolved>>

AddAssetsBucketDomainName ==
    /\ pc = "assets_bucket_output"
    /\ Register("outputs", "AssetsBucketDomainName",
                Output("Assets bucket domain name", GetAtt(assets_bucket, "DomainName")),
                "private_assets_bucket")
    /\ UNCHANGED <<USE_GOVCLOUD, arn_prefix, common_bucket_conf, assets_management_policy,
                   distribution, stack_parameters, resolved>>

AddPrivateAssetsBucket ==
    /\ pc = "private_assets_bucket"
    /\ Register("resources", private_assets_bucket, Bucket(Private, common_bucket_conf),
                "private_assets_bucket_output")
    /\ UNCHANGED <<USE_GOVCLOUD, arn_prefix, common_bucket_conf, assets_management_policy,
                   distribution, stack_parameters, resolved>>

AddPrivateAssetsBucketDomainName ==
    /\ pc = "private_assets_bucket_output"
    /\ Register("outputs", "PrivateAssetsBucketDomainName",
                Output("Private assets bucket domain name",
                       GetAtt(private_assets_bucket, "DomainName")),
                "assets_management_policy")
    /\ UNCHANGED <<USE_GOVCLOUD, arn_prefix, common_bucket_conf, assets_management_policy,
                   distribution, stack_parameters, resolved>>

BuildAssetsManagementPolicy ==
    /\ pc = "assets_management_policy"
    /\ assets_management_policy' = AssetsManagementPolicy(arn_prefix)
    /\ pc' = "use_govcloud"
    /\ UNCHANGED <<USE_GOVCLOUD, arn_prefix, template, common_bucket_conf,
                   distribution, stack_parameters, resolved>>

AddDistributionAliases ==
    /\ pc = "use_govcloud"
    /\ BuildDistributions(USE_GOVCLOUD)
    /\ Register("parameters", "DistributionAliases",
                Parameter("A comma-separated list of CNAMEs (alternate domain names), if any, for the CloudFront distribution, e.g. static.mydomain.com",
                          "CommaDelimitedList"),
                "distribution")
    /\ UNCHANGED <<USE_GOVCLOUD, arn_prefix, common_bucket_conf, assets_management_policy,
                   distribution, stack_parameters, resolved>>

AddAssetsDistribution ==
    /\ pc = "distribution"
    /\ Register("resources", "AssetsDistribution", AssetsDistribution,
                "media_distribution_alias")
    /\ distribution' = IF pc' = "raised" THEN distribution ELSE "AssetsDistribution"
    /\ UNCHANGED <<USE_GOVCLOUD, arn_prefix, common_bucket_conf, assets_management_policy,
                   stack_parameters, resolved>>

AddMediaDistributionAlias ==
    /\ pc = "media_distribution_alias"
    /\ Register("parameters", "MediaDistributionAlias",
                Parameter("Optional CNAME (alternate domain name) for the PrivateAssetsBucket's CloudFront distribution, e.g. media.mydomain.com",
                          "String"),
                "no_media_distribution_alias")
    /\ UNCHANGED <<USE_GOVCLOUD, arn_prefix, common_bucket_conf, assets_management_policy,
                   distribution, stack_parameters, resolved>>

AddNoMediaDistributionAlias ==
    /\ pc = "no_media_distribution_alias"
    /\ template' = add_condition(template, no_media_distribution_alias,
                                 Equals(media_distribution_alias, Lit(EMPTY)))
    /\ pc' = "media_acm_certificate_arn"
    /\ UNCHANGED <<USE_GOVCLOUD, arn_prefix, common_bucket_conf, assets_management_policy,
                   distribution, stack_parameters, resolved>>

AddMediaAcmCertificateArn ==
    /\ pc = "media_acm_certificate_arn"
    /\ Register("parameters", "MediaAcmCertificateArn",
                Parameter("If you're using MediaDistributionAlias, enter the Amazon Resource Name (ARN) of an AWS Certificate Manager (ACM) certificate from US East (N. Virginia).",
                          "String"),
                "no_media_acm_certificate_arn")
    /\ UNCHANGED <<USE_GOVCLOUD, arn_prefix, common_bucket_conf, assets_management_policy,
                   distribution, stack_parameters, resolved>>

AddNoMediaAcmCertificateArn ==
    /\ pc = "no_media_acm_certificate_arn"
    /\ template' = add_condition(template, no_media_acm_certificate_arn,
                                 Equals(media_acm_certificate_arn, Lit(EMPTY)))
    /\ pc' = "media_distribution"
    /\ UNCHANGED <<USE_GOVCLOUD, arn_prefix, common_bucket_conf, assets_management_policy,
                   distribution, stack_parameters, resolved>>

AddMediaAssetsDistribution ==
    /\ pc = "media_distribution"
    /\ Register("resources", "MediaAssetsDistribution", MediaAssetsDistribution,
                "distribution_output")
    /\ UNCHANGED <<USE_GOVCLOUD, arn_prefix, common_bucket_conf, assets_management_policy,
                   distribution, stack_parameters, resolved>>

AddAssetsDistributionDomainName ==
    /\ pc = "distribution_output"
    /\ Register("outputs", "AssetsDistributionDomainName",
                Output("The assest CDN domain name", GetAtt(distribution, "DomainName")),
                "built")
    /\ UNCHANGED <<USE_GOVCLOUD, arn_prefix, common_bucket_conf, assets_management_policy,
                   distribution, stack_parameters, resolved>>

NoDistribution ==
    /\ pc = "use_govcloud"
    /\ ~BuildDistributions(USE_GOVCLOUD)
    /\ distribution' = "None"
    /\ pc' = "built"
    /\ UNCHANGED <<USE_GOVCLOUD, arn_prefix, template, common_bucket_conf,
                   assets_management_policy, stack_parameters, resolved>>

\* parameter values a stack can be launched with: the two of .domain and
\* those the pass declared
DistributionAliasesValues == {<<>>, << <<"s">> >>}
MediaDistributionAliasValues == {EMPTY, <<"m">>}
MediaAcmCertificateArnValues == {EMPTY, <<"c">>}

ParameterValues(d, alts, da, ma, cert) ==
    LET all == [DomainName |-> Str(d),
                DomainNameAlternates |-> Lst(alts),
                DistributionAliases |-> Lst(da),
                MediaDistributionAlias |-> Str(ma),
                MediaAcmCertificateArn |-> Str(cert)]
    IN  [n \in {"DomainName", "DomainNameAlternates"} \cup DOMAIN template.parameters |-> all[n]]

\* the finished template is launched as a stack: CloudFormation resolves the
\* intrinsic functions against the parameter values
CreateStack ==
    /\ pc = "built"
    /\ \E d \in Domains, alts \in AlternateLists,
          da \in DistributionAliasesValues,
          ma \in MediaDistributionAliasValues,
          cert \in MediaAcmCertificateArnValues :
            /\ stack_parameters' = ParameterValues(d, alts, da, ma, cert)
            /\ resolved' = ResolveTemplate(template, assets_management_policy,
                                           stack_parameters')
    /\ pc' = "resolved"
    /\ UNCHANGED <<USE_GOVCLOUD, arn_prefix, template, common_bucket_conf,
                   assets_management_policy, distribution>>

Next ==
    \/ BuildCommonBucketConf
    \/ AddAssetsBucket
    \/ AddAssetsBucketDomainName
    \/ AddPrivateAssetsBucket
    \/ AddPrivateAssetsBucketDomainName
    \/ BuildAssetsManagementPolicy
    \/ AddDistributionAliases
    \/ AddAssetsDistribution
    \/ AddMediaDistributionAlias
    \/ AddNoMediaDistributionAlias
    \/ AddMediaAcmCertificateArn
    \/ AddNoMediaAcmCertificateArn
    \/ AddMediaAssetsDistribution
    \/ AddAssetsDistributionDomainName
    \/ NoDistribution
    \/ CreateStack

Spec == Init /\ [][Next]_vars

-----------------------------------------------------------------------------
(* Properties *)

Built == pc \in {"built", "resolved"}
Deployed == pc = "resolved"
GovCloudOff == USE_GOVCLOUD # "on"

Kinds == {"resources", "outputs", "parameters", "conditions"}

DistributionTitles ==
    {n \in DOMAIN template.resources :
        template.resources[n].Type = "AWS::CloudFront::Distribution"}
BucketTitles ==
    {n \in DOMAIN template.resources : template.resources[n].Type = "AWS::S3::Bucket"}

Present(v) == v.t # "novalue"

MediaConfig == resolved.resources["MediaAssetsDistribution"].DistributionConfig
AliasValue == stack_parameters["MediaDistributionAlias"].v
CertificateValue == stack_parameters["MediaAcmCertificateArn"].v

\* C1: outside GovCloud, the media distribution resolves without an alias
\* list when MediaDistributionAlias is empty, and with the one-element list
\* holding the alias when it is not, whatever MediaAcmCertificateArn is.
C1_AliasListFollowsAlias ==
    (Deployed /\ GovCloudOff) =>
        IF AliasValue = EMPTY
        THEN ~Present(MediaConfig.Aliases)
        ELSE /\ MediaConfig.Aliases.t = "list"
             /\ MediaConfig.Aliases.v = <<AliasValue>>

\* C2: outside GovCloud, the media distribution resolves without a viewer
\* certificate when MediaAcmCertificateArn is empty, and with one binding of
\* that ARN and SSL support method sni-only when it is not.
C2_CertificateFollowsArn ==
    (Deployed /\ GovCloudOff) =>
        IF CertificateValue = EMPTY
        THEN ~Present(MediaConfig.ViewerCertificate)
        ELSE /\ MediaConfig.ViewerCertificate.t = "cert"
             /\ MediaConfig.ViewerCertificate.AcmCertificateArn = CertificateValue
             /\ MediaConfig.ViewerCertificate.SslSupportMethod = "sni-only"

C2_Witness ==
    /\ Deployed /\ GovCloudOff
    /\ CertificateValue # EMPTY /\ AliasValue = EMPTY
    /\ MediaConfig.ViewerCertificate.t = "cert"

\* C3: after the pass outside GovCloud the accumulator holds two conditions
\* under two names, one testing MediaDistributionAlias for the empty string
\* and one testing MediaAcmCertificateArn for it.
C3_TwoConditions ==
    (Built /\ GovCloudOff) =>
        \E n1, n2 \in DOMAIN template.conditions :
            /\ n1 # n2
            /\ template.conditions[n1] = Equals(media_distribution_alias, Lit(EMPTY))
            /\ template.conditions[n2] = Equals(media_acm_certificate_arn, Lit(EMPTY))

\* C4: no step of the pass removes or changes an entry the accumulator
\* already holds.
C4_WriteOnce ==
    [][\A k \in Kinds : \A n \in DOMAIN template[k] :
            /\ n \in DOMAIN template'[k]
            /\ template'[k][n] = template[k][n]]_vars

\* C5: with USE_GOVCLOUD equal to 'on' the finished pass has registered no
\* distribution, none of the three distribution parameters, no condition and
\* no AssetsDistributionDomainName output; otherwise it has registered
\* exactly two distributions and that output.
C5_GovCloudSelectsDistributions ==
    Built =>
        IF USE_GOVCLOUD = "on"
        THEN /\ DistributionTitles = {}
             /\ DOMAIN template.parameters \cap
                    {"DistributionAliases", "MediaDistributionAlias",
                     "MediaAcmCertificateArn"} = {}
             /\ DOMAIN template.conditions = {}
             /\ "AssetsDistributionDomainName" \notin DOMAIN template.outputs
        ELSE /\ Cardinality(DistributionTitles) = 2
             /\ "AssetsDistributionDomainName" \in DOMAIN template.outputs

C5_Witness ==
    /\ pc = "built" /\ USE_GOVCLOUD = "on" /\ distribution = "None"
    /\ DOMAIN template.resources = {"AssetsBucket", "PrivateAssetsBucket"}

\* C6: the allowed origins of both buckets resolve to 'https://' + the
\* primary domain followed by 'https://' + each alternate, in order; with no
\* alternates that is the one-element list of the primary origin.
ExpectedOrigins ==
    LET d == stack_parameters["DomainName"].v
        alts == stack_parameters["DomainNameAlternates"].v
    IN  <<HTTPS \o d>> \o [i \in 1..Len(alts) |-> HTTPS \o alts[i]]

C6_AllowedOrigins ==
    Deployed =>
        \A b \in {"AssetsBucket", "PrivateAssetsBucket"} :
            LET rules == resolved.resources[b].CorsConfiguration.CorsRules
            IN  /\ Len(rules) = 1
                /\ rules[1].AllowedOrigins.t = "list"
                /\ rules[1].AllowedOrigins.v = ExpectedOrigins

C6_Witness ==
    /\ Deployed
    /\ stack_parameters["DomainNameAlternates"].v = <<>>
    /\ stack_parameters["DomainName"].v = <<"a">>
    /\ resolved.resources["AssetsBucket"].CorsConfiguration.CorsRules[1].AllowedOrigins.v
         = <<HTTPS \o <<"a">> >>

\* C7: for every value of USE_GOVCLOUD the policy holds exactly four Allow
\* statements: for each bucket one with s3:ListBucket on
\* <arn_prefix>:s3:::<bucket> and one with s3:* on <arn_prefix>:s3:::<bucket>/*.
ExpectedStatements ==
    UNION {{[Effect |-> "Allow", Action |-> <<"s3:ListBucket">>,
             Resource |-> Str(arn_prefix \o S3_ARN \o PhysicalId(b))],
            [Effect |-> "Allow", Action |-> <<"s3:*">>,
             Resource |-> Str(arn_prefix \o S3_ARN \o PhysicalId(b) \o SLASH_STAR)]}
           : b \in {"AssetsBucket", "PrivateAssetsBucket"}}

C7_PolicyStatements ==
    Deployed =>
        LET st == resolved.policy.PolicyDocument.Statement
        IN  /\ Len(st) = 4
            /\ Len(assets_management_policy.PolicyDocument.Statement) = 4
            /\ {st[i] : i \in 1..Len(st)} = ExpectedStatements
            /\ Cardinality(ExpectedStatements) = 4

C7_Witness ==
    /\ Deployed /\ USE_GOVCLOUD = "on" /\ arn_prefix = ARN_AWS_US_GOV
    /\ Len(resolved.policy.PolicyDocument.Statement) = 4

\* C8: for every value of USE_GOVCLOUD the finished pass has registered
\* exactly the buckets AssetsBucket (public-read) and PrivateAssetsBucket
\* (private), which differ in their access control only (versioning enabled,
\* deletion policy Retain, same CORS rules), and the outputs
\* AssetsBucketDomainName and PrivateAssetsBucketDomainName, each bound to the
\* domain name of its own bucket.
C8_Buckets ==
    Built =>
        LET pub == template.resources["AssetsBucket"]
            prv == template.resources["PrivateAssetsBucket"]
        IN  /\ BucketTitles = {"AssetsBucket", "PrivateAssetsBucket"}
            /\ pub.AccessControl = "PublicRead"
            /\ prv.AccessControl = "Private"
            /\ [pub EXCEPT !.AccessControl = "Private"] = prv
            /\ pub.VersioningConfiguration.Status = "Enabled"
            /\ pub.DeletionPolicy = "Retain"
            /\ DOMAIN template.outputs \ {"AssetsDistributionDomainName"}
                 = {"AssetsBucketDomainName", "PrivateAssetsBucketDomainName"}
            /\ template.outputs["AssetsBucketDomainName"].Value
                 = GetAtt("AssetsBucket", "DomainName")
            /\ template.outputs["PrivateAssetsBucketDomainName"].Value
                 = GetAtt("PrivateAssetsBucket", "DomainName")

C8_Witness ==
    /\ pc = "built" /\ USE_GOVCLOUD = "on"
    /\ template.resources["PrivateAssetsBucket"].AccessControl = "Private"
    /\ template.resources["AssetsBucket"].AccessControl = "PublicRead"

\* C9: outside GovCloud each distribution has one origin, on the domain name
\* of its own bucket, a default cache behaviour that targets that origin,
\* forwards query strings and the three CORS headers and allows all viewer
\* protocols; the primary passes its DistributionAliases list and has no
\* certificate binding, the secondary gates both by a condition.
BucketOf(title) ==
    IF title = "AssetsDistribution" THEN "AssetsBucket" ELSE "PrivateAssetsBucket"

C9_Distributions ==
    (Deployed /\ GovCloudOff) =>
        /\ DistributionTitles = {"AssetsDistribution", "MediaAssetsDistribution"}
        /\ \A n \in DistributionTitles :
              LET c == resolved.resources[n].DistributionConfig
                  b == c.DefaultCacheBehavior
              IN  /\ Len(c.Origins) = 1
                  /\ c.Origins[1].DomainName = Att(BucketOf(n), "DomainName")
                  /\ b.TargetOriginId = c.Origins[1].Id
                  /\ b.ForwardedValues.QueryString = TRUE
                  /\ b.ForwardedValues.Headers =
                        <<"Origin", "Access-Control-Request-Headers",
                          "Access-Control-Request-Method">>
                  /\ b.ViewerProtocolPolicy = "allow-all"
        /\ LET p == template.resources["AssetsDistribution"].DistributionConfig
               m == template.resources["MediaAssetsDistribution"].DistributionConfig
           IN  /\ p.Aliases = Ref("DistributionAliases")
               /\ "ViewerCertificate" \notin DOMAIN p
               /\ m.Aliases.fn = "If"
               /\ m.ViewerCertificate.fn = "If"
        /\ resolved.resources["AssetsDistribution"].DistributionConfig.Aliases
             = stack_parameters["DistributionAliases"]

C9_Witness ==
    /\ Deployed /\ GovCloudOff
    /\ stack_parameters["DistributionAliases"].v = << <<"s">> >>
    /\ resolved.resources["MediaAssetsDistribution"].DistributionConfig.Origins[1].DomainName
         = Att("PrivateAssetsBucket", "DomainName")

\* C10: outside GovCloud the alias list and the viewer certificate of the
\* media distribution are gated by one condition name, so the resolved
\* distribution has an alias list exactly when it has a certificate binding.
C10_AliasIffCertificate ==
    (Deployed /\ GovCloudOff) =>
        (Present(MediaConfig.Aliases) <=> Present(MediaConfig.ViewerCertificate))

C10_Witness ==
    /\ Deployed /\ GovCloudOff
    /\ AliasValue = EMPTY /\ CertificateValue # EMPTY
    /\ Present(MediaConfig.Aliases) /\ Present(MediaConfig.ViewerCertificate)

====
